---- MODULE Spec2Model ----
(***************************************************************************)
(* Model of the flask-specializations-api service: the three tables of     *)
(* db.py (users, specializations, course_items), the token gate of         *)
(* flask_jwt_extended, and one action per HTTP handler of resources/*.py.  *)
(*                                                                         *)
(* A handler is modelled from the point where flask-smorest hands it the   *)
(* payload loaded by its schema (@blp.arguments), so the inputs are the    *)
(* schema-valid payloads.  uuid4().hex values are modelled by integers.    *)
(* Every mutating handler ends in                                          *)
(* db.session.commit(); a commit the database rejects (a UNIQUE or a       *)
(* FOREIGN KEY constraint of db.py) raises IntegrityError, which the       *)
(* handler does not catch: the response is a 500 and nothing is stored.    *)
(***************************************************************************)
EXTENDS Integers, FiniteSets, Sequences, TLC

VARIABLES
    foreign_keys,     \* whether the configured database enforces FOREIGN KEY
    now,              \* the server's clock
    users,            \* table users: rows [id, username, password]
    tokens,           \* the access tokens login has issued so far
    specializations,  \* table specializations: rows [id, name]
    course_items,     \* table course_items: rows [id, name, type, specialization_id]
    resp,             \* the last request completed and its response
    inflight          \* per worker thread: the request it is in the middle of

vars == <<foreign_keys, now, users, tokens, specializations, course_items,
          resp, inflight>>

\* ---------------------------------------------------------------- bounds
\* Rows of course_items, clock ticks.
MaxItems == 2
MaxTime == 1

\* ------------------------------------------------------- request inputs
Usernames == {"alice", "bob"}
Passwords == {1, 2}
Salts == {1, 2}
SpecNames == {"Data Science", "AI"}
ItemNames == {"intro", "lab"}
ItemTypes == {"course", "project"}

\* An identifier uuid4() never returns (a request may name any string).
UnknownId == 0
\* The identifiers a request names: one that is stored, or an unknown one.
SpecIds == {UnknownId} \cup {s.id : s \in specializations}
ItemIds == {UnknownId} \cup {c.id : c \in course_items}

\* The worker threads of the development server (app.run, threaded).
Workers == {"w1", "w2"}

\* ---------------------------------------------------------- identifiers
\* uuid.uuid4().hex: an identifier that occurs nowhere in the service.
\* Identifiers are opaque (only ever compared for equality, and a course
\* item's key is never compared with a specialization's), so which unused one
\* it is makes no difference: the model takes the least positive integer not
\* in `used`.
uuid4(used) ==
    CHOOSE n \in 1..(Cardinality(used) + 1) :
        /\ n \notin used
        /\ \A m \in 1..(n - 1) : m \in used

\* The specialization identifiers the service holds: the keys of the rows, the
\* references of course items, and those requests in progress have read.
UsedSpecIds ==
    {s.id : s \in specializations}
    \cup {c.specialization_id : c \in course_items}
    \cup UNION {inflight[w].spec_ids : w \in Workers}

\* The course item identifiers the service holds.
UsedItemIds ==
    {c.id : c \in course_items}
    \cup UNION {inflight[w].item_ids : w \in Workers}

\* ------------------------------------------------------------ passwords
\* passlib pbkdf2_sha256: a salted one-way digest; the stored string holds
\* the salt and the checksum, never the password.
Pbkdf2Checksum(password, salt) == (password * 31 + salt * 7) % 97

Pbkdf2Hash(password, salt) ==
    [salt |-> salt, checksum |-> Pbkdf2Checksum(password, salt)]

Pbkdf2Verify(password, hash) ==
    Pbkdf2Checksum(password, hash.salt) = hash.checksum

\* --------------------------------------------------------------- tokens
NoToken == [sub |-> 0, exp |-> 0, sig |-> "none"]

\* flask_jwt_extended's default JWT_ACCESS_TOKEN_EXPIRES, in clock ticks.
TokenTTL == 1

create_access_token(identity) ==
    [sub |-> identity, exp |-> now + TokenTTL, sig |-> "server"]

\* A token whose signature was not made with JWT_SECRET_KEY: forged, or an
\* issued token whose payload was altered.
ForgedTokens == {[sub |-> 1, exp |-> MaxTime + TokenTTL + 1, sig |-> "forged"]}

\* What an Authorization header can carry.
Credentials == {NoToken} \cup tokens \cup ForgedTokens

\* A gate that verifies the signature and forgets the exp claim.
jwt_required_ignoring_exp(cred) ==
    cred.sig = "server"

\* @jwt_required(): the signature verifies and the exp claim lies ahead.
jwt_required(cred) ==
    /\ cred.sig = "server"
    /\ now < cred.exp

\* The claims' notion of a valid token, stated apart from the gate above:
\* one that login issued and that has not expired.
TokenValid(cred) == cred \in tokens /\ now < cred.exp

\* ------------------------------------------------------------- queries
\* A lookup that never finds the user.
UserByUsername_unchecked(username) == {}

\* UserModel.query.filter_by(username=...)
UserByUsername(username) == {u \in users : u.username = username}

\* users.id INTEGER PRIMARY KEY: the next row id.
NextUserId ==
    IF users = {} THEN 1
    ELSE (CHOOSE i \in {u.id : u \in users} : \A u \in users : u.id <= i) + 1

\* SpecializationModel.query.get(id)
SpecById(id) == {s \in specializations : s.id = id}

\* A lookup that never finds the specialization.
SpecByName_unchecked(name) == {}

\* SpecializationModel.query.filter_by(name=...)
SpecByName(name) == {s \in specializations : s.name = name}

\* CourseItemModel.query.get(id)
ItemById(id) == {c \in course_items : c.id = id}

\* A lookup that filters by name alone.
ItemByName_only(name, sid) == {c \in course_items : c.name = name}

\* CourseItemModel.query.filter_by(name=..., specialization_id=...)
ItemByNameAndSpec(name, sid) ==
    {c \in course_items : c.name = name /\ c.specialization_id = sid}

\* SpecializationModel.course_items: the rows the relationship loads.
OwnedItems(sid) == {c \in course_items : c.specialization_id = sid}

\* dict.get(key, default) on a loaded payload.
Get(data, key, default) == IF key \in DOMAIN data THEN data[key] ELSE default

\* ----------------------------------------------------------- responses
\* A request and its response: op names the handler; status is the HTTP
\* status; auth tells whether the request carried a valid token; id is the
\* identifier in the URL (or the one generated for a new row); data is the
\* loaded payload; rows counts the rows the commit inserted, updated or
\* deleted.
Response(op, status, cred, id, data, rows) ==
    [op |-> op, status |-> status, auth |-> TokenValid(cred), id |-> id,
     fields |-> DOMAIN data, rows |-> rows]

NoData == <<>>

\* No response is waiting to be sent.
NoResponse == Response("none", 0, NoToken, 0, NoData, 0)

\* ------------------------------------------------- database constraints
\* users.username is UNIQUE.
UniqueUsernameViolated(username) ==
    \E u \in users : u.username = username

\* A table created without the constraint.
UniqueName_unenforced(id, name) == FALSE

\* specializations.name is UNIQUE: the commit of row `id` named `name` is
\* rejected when another row holds that name.

UniqueNameViolated(id, name) ==
    \E s \in specializations : s.id # id /\ s.name = name

\* course_items.specialization_id REFERENCES specializations.id, checked
\* only by a database that enforces foreign keys (SQLite, the default
\* DATABASE_URL, does not unless asked to; PostgreSQL and MySQL do).
ForeignKeyViolated(sid) ==
    foreign_keys /\ SpecById(sid) = {}

\* ---------------------------------------------------------------- users
UserRegister_post(username, password, salt) ==
    /\ resp = NoResponse
    /\ LET data == [username |-> username, password |-> password]
       IN  IF UserByUsername(username) # {}
           THEN /\ resp' = Response("register", 409, NoToken, 0, data, 0)
                /\ UNCHANGED users
           ELSE IF UniqueUsernameViolated(username)
           THEN /\ resp' = Response("register", 500, NoToken, 0, data, 0)
                /\ UNCHANGED users
           ELSE /\ users' = users \cup
                       {[id |-> NextUserId, username |-> username,
                         password |-> Pbkdf2Hash(password, salt)]}
                /\ resp' = Response("register", 201, NoToken, NextUserId, data, 1)
    /\ UNCHANGED <<foreign_keys, now, tokens, specializations, course_items, inflight>>

UserLogin_post(username, password) ==
    /\ resp = NoResponse
    /\ LET data == [username |-> username, password |-> password]
           found == UserByUsername(username)
       IN  IF /\ found # {}
              /\ Pbkdf2Verify(password, (CHOOSE u \in found : TRUE).password)
           THEN LET user == CHOOSE u \in found : TRUE
                IN  /\ tokens' = tokens \cup {create_access_token(user.id)}
                    /\ resp' = Response("login", 200, NoToken, user.id, data, 0)
           ELSE /\ resp' = Response("login", 401, NoToken, 0, data, 0)
                /\ UNCHANGED tokens
    /\ UNCHANGED <<foreign_keys, now, users, specializations, course_items, inflight>>

UserProfile_get(cred) ==
    /\ resp = NoResponse
    /\ resp' = Response("profile",
                        IF ~jwt_required(cred) THEN 401
                        ELSE IF \E u \in users : u.id = cred.sub THEN 200
                        ELSE 404,
                        cred, 0, NoData, 0)
    /\ UNCHANGED <<foreign_keys, now, users, tokens, specializations,
                   course_items, inflight>>

\* ------------------------------------------------------ specializations
Specialization_get(cred, id) ==
    /\ resp = NoResponse
    /\ resp' = Response("specialization.get",
                        IF SpecById(id) = {} THEN 404 ELSE 200,
                        cred, id, NoData, 0)
    /\ UNCHANGED <<foreign_keys, now, users, tokens, specializations,
                   course_items, inflight>>

SpecializationList_get(cred) ==
    /\ resp = NoResponse
    /\ resp' = Response("specialization.list", 200, cred, 0, NoData, 0)
    /\ UNCHANGED <<foreign_keys, now, users, tokens, specializations,
                   course_items, inflight>>

SpecializationList_post(cred, name) ==
    /\ resp = NoResponse
    /\ LET data == [name |-> name]
       IN  IF ~jwt_required(cred)
           THEN /\ resp' = Response("specialization.post", 401, cred, 0, data, 0)
                /\ UNCHANGED <<specializations>>
           ELSE IF SpecByName(name) # {}
           THEN /\ resp' = Response("specialization.post", 400, cred, 0, data, 0)
                /\ UNCHANGED <<specializations>>
           ELSE IF UniqueNameViolated(uuid4(UsedSpecIds), name)
           THEN /\ resp' = Response("specialization.post", 500, cred, 0, data, 0)
                /\ UNCHANGED specializations
           ELSE /\ specializations' = specializations \cup
                       {[id |-> uuid4(UsedSpecIds), name |-> name]}
                /\ resp' = Response("specialization.post", 201, cred,
                                    uuid4(UsedSpecIds), data, 1)
    /\ UNCHANGED <<foreign_keys, now, users, tokens, course_items, inflight>>

Specialization_put(cred, id, name) ==
    /\ resp = NoResponse
    /\ LET data == [name |-> name]
       IN  IF ~jwt_required(cred)
           THEN /\ resp' = Response("specialization.put", 401, cred, id, data, 0)
                /\ UNCHANGED specializations
           ELSE IF SpecById(id) = {}
           THEN /\ resp' = Response("specialization.put", 404, cred, id, data, 0)
                /\ UNCHANGED specializations
           ELSE IF UniqueNameViolated(id, name)
           THEN /\ resp' = Response("specialization.put", 500, cred, id, data, 0)
                /\ UNCHANGED specializations
           ELSE /\ specializations' = (specializations \ SpecById(id)) \cup
                       {[id |-> id, name |-> name]}
                /\ resp' = Response("specialization.put", 200, cred, id, data,
                                    IF [id |-> id, name |-> name] \in specializations
                                    THEN 0 ELSE 1)
    /\ UNCHANGED <<foreign_keys, now, users, tokens, course_items,
                   inflight>>

\* A relationship declared without the cascade.
CascadeDelete_none(id) == course_items

\* cascade="all, delete-orphan": the rows of course_items that
\* db.session.delete(specialization) leaves.

CascadeDelete(id) == course_items \ OwnedItems(id)

Specialization_delete(cred, id) ==
    /\ resp = NoResponse
    /\ IF ~jwt_required(cred)
       THEN /\ resp' = Response("specialization.delete", 401, cred, id, NoData, 0)
            /\ UNCHANGED <<specializations, course_items>>
       ELSE IF SpecById(id) = {}
       THEN /\ resp' = Response("specialization.delete", 404, cred, id, NoData, 0)
            /\ UNCHANGED <<specializations, course_items>>
       ELSE /\ course_items' = CascadeDelete(id)
            /\ specializations' = specializations \ SpecById(id)
            /\ resp' = Response("specialization.delete", 200, cred, id, NoData,
                                1 + Cardinality(course_items)
                                  - Cardinality(CascadeDelete(id)))
    /\ UNCHANGED <<foreign_keys, now, users, tokens, inflight>>

\* --------------------------------------------------------- course items
Course_Item_get(id) ==
    /\ resp = NoResponse
    /\ resp' = Response("course_item.get",
                        IF ItemById(id) = {} THEN 404 ELSE 200,
                        NoToken, id, NoData, 0)
    /\ UNCHANGED <<foreign_keys, now, users, tokens, specializations,
                   course_items, inflight>>

Course_ItemList_get ==
    /\ resp = NoResponse
    /\ resp' = Response("course_item.list", 200, NoToken, 0, NoData, 0)
    /\ UNCHANGED <<foreign_keys, now, users, tokens, specializations,
                   course_items, inflight>>

Course_Item_delete(id) ==
    /\ resp = NoResponse
    /\ IF ItemById(id) = {}
       THEN /\ resp' = Response("course_item.delete", 404, NoToken, id, NoData, 0)
            /\ UNCHANGED course_items
       ELSE /\ course_items' = course_items \ ItemById(id)
            /\ resp' = Response("course_item.delete", 200, NoToken, id, NoData, 1)
    /\ UNCHANGED <<foreign_keys, now, users, tokens, specializations, inflight>>

\* The payloads CourseItemUpdateSchema loads: any subset of the three
\* fields, none required.
PayloadsWith(keys) ==
    {[k \in keys |-> d[k]] :
        d \in [name : ItemNames, type : ItemTypes, specialization_id : SpecIds]}

UpdatePayloads ==
    UNION {PayloadsWith(keys) :
               keys \in SUBSET {"name", "type", "specialization_id"}}

\* Assignments that reset an unsupplied type instead of keeping it.
UpdatedItem_resetting_type(item, data) ==
    [id |-> item.id,
     name |-> Get(data, "name", item.name),
     type |-> Get(data, "type", "course"),
     specialization_id |-> Get(data, "specialization_id", item.specialization_id)]

\* The three assignments of Course_Item.put.
UpdatedItem(item, data) ==
    [id |-> item.id,
     name |-> Get(data, "name", item.name),
     type |-> Get(data, "type", item.type),
     specialization_id |-> Get(data, "specialization_id", item.specialization_id)]

Course_Item_put(id, data) ==
    /\ resp = NoResponse
    /\ IF ItemById(id) = {}
       THEN /\ resp' = Response("course_item.put", 404, NoToken, id, data, 0)
            /\ UNCHANGED course_items
       ELSE LET item == CHOOSE c \in ItemById(id) : TRUE
                new == UpdatedItem(item, data)
            IN  IF ForeignKeyViolated(new.specialization_id)
                THEN /\ resp' = Response("course_item.put", 500, NoToken, id,
                                         data, 0)
                     /\ UNCHANGED course_items
                ELSE /\ course_items' = (course_items \ {item}) \cup {new}
                     /\ resp' = Response("course_item.put", 200, NoToken, id,
                                         data, IF new = item THEN 0 ELSE 1)
    /\ UNCHANGED <<foreign_keys, now, users, tokens, specializations, inflight>>

Course_ItemList_post(name, type, sid) ==
    /\ resp = NoResponse
    /\ Cardinality(course_items) < MaxItems
    /\ LET data == [name |-> name, type |-> type, specialization_id |-> sid]
       IN  IF SpecById(sid) = {}
           THEN /\ resp' = Response("course_item.post", 404, NoToken, 0, data, 0)
                /\ UNCHANGED <<course_items>>
           ELSE IF ItemByNameAndSpec(name, sid) # {}
           THEN /\ resp' = Response("course_item.post", 400, NoToken, 0, data, 0)
                /\ UNCHANGED <<course_items>>
           ELSE /\ course_items' = course_items \cup
                       {[id |-> uuid4(UsedItemIds), name |-> name, type |-> type,
                         specialization_id |-> sid]}
                /\ resp' = Response("course_item.post", 201, NoToken,
                                    uuid4(UsedItemIds), data, 1)
    /\ UNCHANGED <<foreign_keys, now, users, tokens, specializations, inflight>>

\* The response is serialised (@blp.response) and leaves the server; the
\* next request can be handled.
Respond ==
    /\ resp # NoResponse
    /\ resp' = NoResponse
    /\ UNCHANGED <<foreign_keys, now, users, tokens, specializations,
                   course_items, inflight>>

\* ----------------------------------------------------------------- time
Tick ==
    /\ resp = NoResponse
    /\ now < MaxTime
    /\ now' = now + 1
    /\ UNCHANGED <<foreign_keys, users, tokens, specializations, course_items, resp, inflight>>

\* -------------------------------------------------------- specifications
Idle == [pc |-> "idle", data |-> NoData, spec_ids |-> {}, item_ids |-> {}]

\* The service after create_app(): empty tables, either kind of database.
Init ==
    /\ foreign_keys \in BOOLEAN
    /\ now = 0
    /\ users = {}
    /\ tokens = {}
    /\ specializations = {}
    /\ course_items = {}
    /\ resp = NoResponse
    /\ inflight = [w \in Workers |-> Idle]

\* The catalogue: one user registers and logs in, then every handler of
\* specialization.py and course_item.py, one request at a time: the next
\* request is taken once the response to the last one has been sent.
Next ==
    \/ resp = NoResponse /\ UserRegister_post("alice", 1, 1)
    \/ resp = NoResponse /\ \E p \in Passwords : UserLogin_post("alice", p)
    \/ resp = NoResponse /\ \E id \in SpecIds : Specialization_get(NoToken, id)
    \/ resp = NoResponse /\ SpecializationList_get(NoToken)
    \/ resp = NoResponse /\ \E c \in Credentials, n \in SpecNames :
           SpecializationList_post(c, n)
    \/ resp = NoResponse /\ \E c \in Credentials, id \in SpecIds, n \in SpecNames :
           Specialization_put(c, id, n)
    \/ resp = NoResponse /\ \E c \in Credentials, id \in SpecIds :
           Specialization_delete(c, id)
    \/ resp = NoResponse /\ \E id \in ItemIds : Course_Item_get(id)
    \/ resp = NoResponse /\ Course_ItemList_get
    \/ resp = NoResponse /\ \E id \in ItemIds : Course_Item_delete(id)
    \/ resp = NoResponse /\ \E id \in ItemIds, d \in UpdatePayloads :
           Course_Item_put(id, d)
    \/ resp = NoResponse /\ \E n \in ItemNames, t \in ItemTypes, sid \in SpecIds :
           Course_ItemList_post(n, t, sid)
    \/ Respond

Spec == Init /\ [][Next]_vars

\* Registration: every username, password and salt, then logins and
\* profile reads.
NextUsers ==
    \/ \E u \in Usernames, p \in Passwords, s \in Salts :
           UserRegister_post(u, p, s)
    \/ \E u \in Usernames, p \in Passwords : UserLogin_post(u, p)
    \/ \E c \in Credentials : UserProfile_get(c)
    \/ Respond

SpecUsers == Init /\ [][NextUsers]_vars

\* The token gate: alice registers, anyone tries to log in, the clock
\* advances, and every handler of specialization.py runs under every
\* credential.
NextAuth ==
    \/ \E p \in Passwords : UserRegister_post("alice", p, 1)
    \/ \E u \in Usernames, p \in Passwords : UserLogin_post(u, p)
    \/ \E c \in Credentials : UserProfile_get(c)
    \/ \E c \in Credentials, id \in SpecIds : Specialization_get(c, id)
    \/ \E c \in Credentials : SpecializationList_get(c)
    \/ \E c \in Credentials, n \in SpecNames : SpecializationList_post(c, n)
    \/ \E c \in Credentials, id \in SpecIds, n \in SpecNames :
           Specialization_put(c, id, n)
    \/ \E c \in Credentials, id \in SpecIds : Specialization_delete(c, id)
    \/ Tick
    \/ Respond

SpecAuth == Init /\ [][NextAuth]_vars

\* ------------------------------------------------------------ concurrency
\* app.run() serves each request on its own thread, and a deployment may run
\* several worker processes: a handler's statements interleave with those of
\* other requests.  Each action below is one database statement of a handler;
\* between them the worker remembers what it has read (inflight).
Working(w, pc, data, spec_ids, item_ids) ==
    [inflight EXCEPT ![w] = [pc |-> pc, data |-> data, spec_ids |-> spec_ids,
                             item_ids |-> item_ids]]

Finished(w) == [inflight EXCEPT ![w] = Idle]

\* Course_ItemList.post, line 47: the specialization is looked up.
ItemPost_query_spec(w, name, type, sid) ==
    /\ inflight[w].pc = "idle"
    /\ Cardinality(course_items) < MaxItems
    /\ LET data == [name |-> name, type |-> type, specialization_id |-> sid]
       IN  IF SpecById(sid) = {}
           THEN /\ resp' = Response("course_item.post", 404, NoToken, 0, data, 0)
                /\ UNCHANGED inflight
           ELSE /\ inflight' = Working(w, "post.query_dup", data, {sid}, {})
                /\ UNCHANGED resp
    /\ UNCHANGED <<foreign_keys, now, users, tokens, specializations,
                   course_items>>

\* Course_ItemList.post, lines 52-58: the duplicate is looked up.
ItemPost_query_dup(w) ==
    /\ inflight[w].pc = "post.query_dup"
    /\ LET data == inflight[w].data
       IN  IF ItemByNameAndSpec(data.name, data.specialization_id) # {}
           THEN /\ resp' = Response("course_item.post", 400, NoToken, 0, data, 0)
                /\ inflight' = Finished(w)
           ELSE /\ inflight' = Working(w, "post.commit", data,
                                       inflight[w].spec_ids, {})
                /\ UNCHANGED resp
    /\ UNCHANGED <<foreign_keys, now, users, tokens, specializations,
                   course_items>>

\* Course_ItemList.post, lines 60-65: the row is inserted and committed.
ItemPost_commit(w) ==
    /\ inflight[w].pc = "post.commit"
    /\ LET data == inflight[w].data
       IN  IF ForeignKeyViolated(data.specialization_id)
           THEN /\ resp' = Response("course_item.post", 500, NoToken, 0, data, 0)
                /\ UNCHANGED course_items
           ELSE /\ course_items' = course_items \cup
                       {[id |-> uuid4(UsedItemIds), name |-> data.name,
                         type |-> data.type,
                         specialization_id |-> data.specialization_id]}
                /\ resp' = Response("course_item.post", 201, NoToken,
                                    uuid4(UsedItemIds), data, 1)
    /\ inflight' = Finished(w)
    /\ UNCHANGED <<foreign_keys, now, users, tokens, specializations>>

\* UserRegister.post, line 19: the username is looked up.
Register_query(w, username, password, salt) ==
    /\ inflight[w].pc = "idle"
    /\ LET data == [username |-> username,
                    password |-> Pbkdf2Hash(password, salt)]
       IN  IF UserByUsername(username) # {}
           THEN /\ resp' = Response("register", 409, NoToken, 0, data, 0)
                /\ UNCHANGED inflight
           ELSE /\ inflight' = Working(w, "register.commit", data, {}, {})
                /\ UNCHANGED resp
    /\ UNCHANGED <<foreign_keys, now, users, tokens, specializations,
                   course_items>>

\* UserRegister.post, lines 23-29: the row is inserted and committed.
Register_commit(w) ==
    /\ inflight[w].pc = "register.commit"
    /\ LET data == inflight[w].data
       IN  IF UniqueUsernameViolated(data.username)
           THEN /\ resp' = Response("register", 500, NoToken, 0, data, 0)
                /\ UNCHANGED users
           ELSE /\ users' = users \cup
                       {[id |-> NextUserId, username |-> data.username,
                         password |-> data.password]}
                /\ resp' = Response("register", 201, NoToken, NextUserId, data, 1)
    /\ inflight' = Finished(w)
    /\ UNCHANGED <<foreign_keys, now, tokens, specializations, course_items>>

\* Specialization.delete, lines 32-34: the token gate and get_or_404.
SpecDelete_get(w, cred, id) ==
    /\ inflight[w].pc = "idle"
    /\ IF ~jwt_required(cred)
       THEN /\ resp' = Response("specialization.delete", 401, cred, id, NoData, 0)
            /\ UNCHANGED inflight
       ELSE IF SpecById(id) = {}
       THEN /\ resp' = Response("specialization.delete", 404, cred, id, NoData, 0)
            /\ UNCHANGED inflight
       ELSE /\ inflight' = Working(w, "delete.cascade", [token |-> cred], {id}, {})
            /\ UNCHANGED resp
    /\ UNCHANGED <<foreign_keys, now, users, tokens, specializations,
                   course_items>>

\* Specialization.delete, line 35: db.session.delete() loads the course
\* items the cascade is to delete.
SpecDelete_cascade(w) ==
    /\ inflight[w].pc = "delete.cascade"
    /\ LET id == CHOOSE i \in inflight[w].spec_ids : TRUE
       IN  inflight' = Working(w, "delete.commit", inflight[w].data, {id},
                               {c.id : c \in OwnedItems(id)})
    /\ UNCHANGED <<foreign_keys, now, users, tokens, specializations,
                   course_items, resp>>

\* Specialization.delete, line 36: the loaded course items and the
\* specialization are deleted and the transaction commits.
SpecDelete_commit(w) ==
    /\ inflight[w].pc = "delete.commit"
    /\ LET id == CHOOSE i \in inflight[w].spec_ids : TRUE
           cred == inflight[w].data.token
           left == {c \in course_items : c.id \notin inflight[w].item_ids}
       IN  IF foreign_keys /\ \E c \in left : c.specialization_id = id
           THEN /\ resp' = Response("specialization.delete", 500, cred, id,
                                    NoData, 0)
                /\ UNCHANGED <<specializations, course_items>>
           ELSE /\ course_items' = left
                /\ specializations' = specializations \ SpecById(id)
                /\ resp' = Response("specialization.delete", 200, cred, id,
                                    NoData,
                                    Cardinality(SpecById(id))
                                      + Cardinality(course_items)
                                      - Cardinality(left))
    /\ inflight' = Finished(w)
    /\ UNCHANGED <<foreign_keys, now, users, tokens>>

\* A running service: alice is registered and logged in, and has created one
\* specialization.
InitConc ==
    /\ foreign_keys \in BOOLEAN
    /\ now = 0
    /\ users = {[id |-> 1, username |-> "alice",
                 password |-> Pbkdf2Hash(1, 1)]}
    /\ tokens = {create_access_token(1)}
    /\ specializations = {[id |-> 1, name |-> "Data Science"]}
    /\ course_items = {}
    /\ resp = NoResponse
    /\ inflight = [w \in Workers |-> Idle]

NextConc ==
    \E w \in Workers :
        \/ \E n \in ItemNames, sid \in SpecIds :
               ItemPost_query_spec(w, n, "course", sid)
        \/ ItemPost_query_dup(w)
        \/ ItemPost_commit(w)
        \/ \E p \in Passwords : Register_query(w, "bob", p, 1)
        \/ Register_commit(w)
        \/ \E c \in Credentials, id \in SpecIds : SpecDelete_get(w, c, id)
        \/ SpecDelete_cascade(w)
        \/ SpecDelete_commit(w)

SpecConc == InitConc /\ [][NextConc]_vars

\* ================================================================ claims
\* A step in which the handler `op` ran.
Handled(op) == resp = NoResponse /\ resp'.op = op

StoreUnchanged == UNCHANGED <<users, specializations, course_items>>

ItemFields == {"name", "type", "specialization_id"}

\* C1: an authenticated delete(id) of an existing specialization succeeds and,
\* in that one step, removes the specialization and every course item whose
\* specialization_id is id (a get on such an item then finds nothing), and
\* leaves every other specialization and course item as it was.
C1_CascadeDelete ==
    [][(Handled("specialization.delete") /\ resp'.auth
            /\ \E s \in specializations : s.id = resp'.id)
        => LET id == resp'.id
           IN  /\ resp'.status = 200
               /\ specializations' = {s \in specializations : s.id # id}
               /\ course_items' =
                      {c \in course_items : c.specialization_id # id}
               /\ \A c \in course_items :
                      c.specialization_id = id => (ItemById(c.id) = {})'
      ]_vars

\* A delete has just removed a specialization and at least one course item of
\* it, while another specialization and a course item of that one remain.
C1_Witness ==
    /\ resp.op = "specialization.delete"
    /\ resp.status = 200
    /\ resp.rows >= 2
    /\ \E c \in course_items : \E s \in specializations :
           c.specialization_id = s.id

\* A username and password that a registered user holds.
Registered(username, password) ==
    \E u \in users :
        /\ u.username = username
        /\ u.password = Pbkdf2Hash(password, u.password.salt)

SpecMutations ==
    {"specialization.post", "specialization.put", "specialization.delete"}

\* C2: a create, rename or delete of a specialization whose request carries no
\* valid token answers 401 and changes nothing, and no step without a valid
\* token changes the specializations; a token is issued only by a login with a
\* registered username and its password, any other login answers 401 and
\* issues nothing; get and list of specializations never ask for a token.
C2_MutationRequiresToken ==
    [][/\ \A op \in SpecMutations :
              (Handled(op) /\ ~resp'.auth)
              => (resp'.status = 401 /\ StoreUnchanged)
       /\ (specializations' # specializations)
              => (resp'.auth /\ resp'.op \in SpecMutations)
       /\ (tokens' # tokens)
              => \E u \in Usernames, p \in Passwords :
                     /\ UserLogin_post(u, p)
                     /\ Registered(u, p)
                     /\ resp'.status = 200
                     /\ \A t \in tokens' \ tokens :
                            /\ t.sig = "server"
                            /\ \E x \in users :
                                   x.username = u /\ x.id = t.sub
       /\ \A u \in Usernames, p \in Passwords :
              (UserLogin_post(u, p) /\ ~Registered(u, p))
              => (resp'.status = 401 /\ tokens' = tokens)
       /\ Handled("specialization.get")
              => /\ resp'.status =
                        IF \E s \in specializations : s.id = resp'.id
                        THEN 200 ELSE 404
                 /\ StoreUnchanged
       /\ Handled("specialization.list")
              => (resp'.status = 200 /\ StoreUnchanged)
      ]_vars

\* A delete was refused with 401 although a token had been issued: every
\* issued token has expired by now, and a specialization is there to delete.
C2_Witness ==
    /\ resp.op = "specialization.delete"
    /\ resp.status = 401
    /\ ~resp.auth
    /\ tokens # {}
    /\ \A t \in tokens : now >= t.exp
    /\ \E s \in specializations : s.id = resp.id

\* C3: register(username, password) answers 201 and adds exactly one user,
\* with an identifier no user had, when no user has the username; otherwise it
\* answers 409 and the users are unchanged.  So no two users ever share a
\* username.
C3_RegisterUniqueUsername ==
    /\ [](\A u1, u2 \in users : u1.username = u2.username => u1 = u2)
    /\ [][Handled("register") =>
          \A u \in Usernames, p \in Passwords, s \in Salts :
              UserRegister_post(u, p, s)
              => IF \E x \in users : x.username = u
                 THEN resp'.status = 409 /\ users' = users
                 ELSE /\ resp'.status = 201
                      /\ \E n \in users' :
                             /\ n.username = u
                             /\ n.id = resp'.id
                             /\ n.id \notin {x.id : x \in users}
                             /\ users' = users \cup {n}
                      /\ Cardinality(users') = Cardinality(users) + 1
         ]_vars

\* A second registration of a username was refused with 409 while two users
\* are stored.
C3_Witness ==
    /\ resp.op = "register"
    /\ resp.status = 409
    /\ Cardinality(users) = 2

\* C4: create(name) with a valid token answers 201 and adds one
\* specialization, with an identifier nothing in the store uses and so with no
\* course items, when no specialization has the name; when one has, it answers
\* with the duplicate error (400) and the store is unchanged.
C4_CreateSpecialization ==
    [][Handled("specialization.post") =>
       \A c \in Credentials, n \in SpecNames :
           (SpecializationList_post(c, n) /\ TokenValid(c))
           => IF \E s \in specializations : s.name = n
              THEN resp'.status = 400 /\ StoreUnchanged
              ELSE /\ resp'.status = 201
                   /\ \E new \in specializations' :
                          /\ new.name = n
                          /\ new.id = resp'.id
                          /\ new.id \notin {s.id : s \in specializations}
                          /\ specializations' = specializations \cup {new}
                          /\ \A i \in course_items' :
                                 i.specialization_id # new.id
                   /\ Cardinality(specializations') =
                          Cardinality(specializations) + 1
                   /\ UNCHANGED <<users, course_items>>
      ]_vars

\* A create with a valid token was refused as a duplicate while course items
\* are stored.
C4_Witness ==
    /\ resp.op = "specialization.post"
    /\ resp.status = 400
    /\ resp.auth
    /\ course_items # {}

\* C5: create(name, type, specializationId) of a course item answers 404 when
\* no specialization has that id (whatever else is stored), otherwise 400 when
\* an item with that name and specialization exists, otherwise 201, adding
\* exactly one item with an unused identifier that references the
\* specialization; on 404 and 400 the store is unchanged.
C5_CreateCourseItem ==
    [][Handled("course_item.post") =>
       \A n \in ItemNames, t \in ItemTypes, sid \in SpecIds :
           Course_ItemList_post(n, t, sid)
           => IF ~ \E s \in specializations : s.id = sid
              THEN resp'.status = 404 /\ StoreUnchanged
              ELSE IF \E i \in course_items :
                          i.name = n /\ i.specialization_id = sid
              THEN resp'.status = 400 /\ StoreUnchanged
              ELSE /\ resp'.status = 201
                   /\ resp'.id \notin {i.id : i \in course_items}
                   /\ course_items' = course_items \cup
                          {[id |-> resp'.id, name |-> n, type |-> t,
                            specialization_id |-> sid]}
                   /\ Cardinality(course_items') =
                          Cardinality(course_items) + 1
                   /\ UNCHANGED <<users, specializations>>
      ]_vars

\* A course item was just created under a name that another specialization's
\* course item already has.
C5_Witness ==
    /\ resp.op = "course_item.post"
    /\ resp.status = 201
    /\ \E new, other \in course_items :
           /\ new.id = resp.id
           /\ other.name = new.name
           /\ other.specialization_id # new.specialization_id
           /\ \E s \in specializations : s.id = new.specialization_id
           /\ \E s \in specializations : s.id = other.specialization_id

\* C6: no two stored course items have the same name under the same
\* specialization_id.
C6_UniqueNamePerSpecialization ==
    \A i1, i2 \in course_items :
        (i1.name = i2.name /\ i1.specialization_id = i2.specialization_id)
        => i1 = i2

\* What update(id, data) stores for the item `old`: the supplied fields
\* overwritten, the others kept.  (In C7 and C8 the response names the id and
\* the fields of the request, so the payloads of a step are sought among those
\* with that id and those fields.)
Overwritten(old, data, new) ==
    /\ new.id = old.id
    /\ \A k \in ItemFields :
           new[k] = IF k \in DOMAIN data THEN data[k] ELSE old[k]

\* C7 as stated: update(id, partial) on an existing item always succeeds and
\* overwrites exactly the supplied fields; on an unknown id it answers 404.
C7_Original ==
    [][Handled("course_item.put") =>
       \A id \in {resp'.id}, d \in PayloadsWith(resp'.fields) :
           Course_Item_put(id, d)
           => IF ~ \E i \in course_items : i.id = id
              THEN resp'.status = 404 /\ StoreUnchanged
              ELSE LET old == CHOOSE i \in course_items : i.id = id
                   IN  /\ resp'.status = 200
                       /\ \E new \in course_items' :
                              /\ Overwritten(old, d, new)
                              /\ course_items' \ {new} = course_items \ {old}
                       /\ UNCHANGED <<users, specializations>>
      ]_vars

\* C7, amended: update(id, partial) on an existing item overwrites exactly the
\* supplied fields and keeps the others, leaving every other row as it was,
\* unless the database enforces foreign keys and the supplied
\* specialization_id is no specialization's id: then the commit fails (500)
\* and nothing changes.  On an unknown id it answers 404 and changes nothing.
C7_PartialUpdate ==
    [][Handled("course_item.put") =>
       \A id \in {resp'.id}, d \in PayloadsWith(resp'.fields) :
           Course_Item_put(id, d)
           => IF ~ \E i \in course_items : i.id = id
              THEN resp'.status = 404 /\ StoreUnchanged
              ELSE IF /\ foreign_keys
                      /\ "specialization_id" \in DOMAIN d
                      /\ ~ \E s \in specializations :
                               s.id = d.specialization_id
              THEN resp'.status = 500 /\ StoreUnchanged
              ELSE LET old == CHOOSE i \in course_items : i.id = id
                   IN  /\ resp'.status = 200
                       /\ \E new \in course_items' :
                              /\ Overwritten(old, d, new)
                              /\ course_items' \ {new} = course_items \ {old}
                       /\ UNCHANGED <<users, specializations>>
      ]_vars

\* An update that supplied only `type` has just changed one of two stored
\* course items.
C7_Witness ==
    /\ resp.op = "course_item.put"
    /\ resp.status = 200
    /\ resp.fields = {"type"}
    /\ resp.rows = 1
    /\ Cardinality(course_items) = 2

\* C8 as stated: update(id, name) with a valid token on an existing id always
\* succeeds and sets the name, even when another specialization holds it; on
\* an unknown id it answers 404.
C8_Original ==
    [][Handled("specialization.put") =>
       \A c \in Credentials, id \in {resp'.id}, n \in SpecNames :
           (Specialization_put(c, id, n) /\ TokenValid(c))
           => IF ~ \E s \in specializations : s.id = id
              THEN resp'.status = 404 /\ StoreUnchanged
              ELSE /\ resp'.status = 200
                   /\ [id |-> id, name |-> n] \in specializations'
      ]_vars

\* C8, amended: update(id, name) with a valid token on an existing id makes no
\* uniqueness check of its own and sets the name, unless another
\* specialization holds that name: then the UNIQUE constraint rejects the
\* commit (500) and nothing changes.  On an unknown id it answers 404 and
\* changes nothing.
C8_UpdateSpecialization ==
    [][Handled("specialization.put") =>
       \A c \in Credentials, id \in {resp'.id}, n \in SpecNames :
           (Specialization_put(c, id, n) /\ TokenValid(c))
           => IF ~ \E s \in specializations : s.id = id
              THEN resp'.status = 404 /\ StoreUnchanged
              ELSE IF \E s \in specializations : s.id # id /\ s.name = n
              THEN resp'.status = 500 /\ StoreUnchanged
              ELSE /\ resp'.status = 200
                   /\ specializations' =
                          {s \in specializations : s.id # id}
                          \cup {[id |-> id, name |-> n]}
                   /\ UNCHANGED <<users, course_items>>
      ]_vars

\* A rename to a name another specialization holds has just been rejected.
C8_Witness ==
    /\ resp.op = "specialization.put"
    /\ resp.status = 500
    /\ resp.auth
    /\ Cardinality(specializations) = 2

\* C9: once the concurrent requests have all finished, the store is one that
\* some serial order of them produces: no two course items with the same
\* (name, specialization_id), no two users with the same username, no course
\* item whose specialization is gone.
C9_SerialOutcome ==
    (\A w \in Workers : inflight[w].pc = "idle")
    => /\ \A i1, i2 \in course_items :
              (i1.name = i2.name
                   /\ i1.specialization_id = i2.specialization_id)
              => i1 = i2
       /\ \A u1, u2 \in users : u1.username = u2.username => u1 = u2
       /\ \A i \in course_items :
              \E s \in specializations : s.id = i.specialization_id

\* C10: every stored course item's specialization_id is the id of exactly one
\* existing specialization.
C10_ReferentialIntegrity ==
    \A i \in course_items :
        Cardinality({s \in specializations : s.id = i.specialization_id}) = 1

====
